---------------------------- MODULE Spec2Model ----------------------------
(***************************************************************************)
(* Ingram scan orchestration engine (Ingram/core.py): Core.run feeds the   *)
(* targets of the ip generator into a bounded gevent pool of Core._scan    *)
(* greenlets, which write into the progress store (Data) and enqueue       *)
(* snapshot jobs (SnapshotPipeline); run then joins the pool, the snapshot *)
(* consumer and the status bar, and calls Core.report.                     *)
(***************************************************************************)
EXTENDS Integers, Sequences, FiniteSets, TLC

\* ------------------------------------------------------------------ bounds
MaxTargets == 2      \* targets the ip generator yields, at most
MaxPorts   == 2      \* length of config.ports
MaxPocs    == 2      \* checks registered for the product that has checks
MaxThNum   == 2      \* largest config.th_num tried
MaxVerifies == 2     \* poc.verify calls one run can make, over all its targets

\* results[:6] in _scan
RecordFields == 6

None == "None"

Min(a, b) == IF a < b THEN a ELSE b

\* --------------------------------------------------------------- inputs
\* target.split(':') of the two target forms, ip and ip:port; the i-th target
\* of the feed has address i
TargetItems(i) == { <<i>>, <<i, 1>> }

Feeds == UNION { { f \in [1..n -> UNION { TargetItems(i) : i \in 1..n }] :
                      \A i \in 1..n : f[i] \in TargetItems(i) } : n \in 0..MaxTargets }

\* the values of config.ports tried: lists of several ports (a scan of one
\* port is what a target of the form ip:port gets)
PortLists == { [i \in 1..n |-> i] : n \in 2..MaxPorts }

Products == {"cam", "dvr"}

\* the registries tried: "cam" has 1..MaxPocs checks, "dvr" has none
PocDicts == { [p \in Products |-> IF p = "cam" THEN [j \in 1..n |-> j] ELSE << >>] :
                 n \in 1..MaxPocs }

\* the number of fields of the tuple a check returns is fixed by the check:
\* the j-th check of a product returns RecordFields + j - 1 fields
ResultLen(poc) == RecordFields + poc - 1

\* what a successful poc.verify(ip, port) returns: a tuple of n fields
\* ip, port, <device>-<vulId>, ...metadata..., vulnerabilityName; the text of
\* a field is a sequence of tokens, "-" being the dash
\* str(n) of a one-digit number
Str(n) == << "1", "2", "3", "4", "5", "6", "7", "8", "9" >>[n]

VerifyResult(ip, port, product, poc) ==
    LET n == ResultLen(poc) IN
    [i \in 1..n |-> IF i = 1 THEN <<"ip", ip>>
                    ELSE IF i = 2 THEN <<"port", port>>
                    ELSE IF i = 3 THEN <<product, "-", Str(poc)>>
                    ELSE IF i = n THEN <<"name", Str(poc)>>
                    ELSE <<"meta", Str(i)>>]

VARIABLES
    feed,               \* data.ip_generator: the targets it will yield
    th_num,             \* config.th_num
    config_ports,       \* config.ports
    poc_dict,           \* self.poc_dict: product -> list of checks
    disable_snapshot,   \* config.disable_snapshot
    pc,                 \* position of run
    outcome,            \* how run ended: "running", "normal", "interrupt", "error"
    fed,                \* targets taken from the ip generator so far
    task,               \* the _scan greenlet of each target
    total, done, found, \* data.total, data.done, data.found
    vulnerable,         \* lines appended by data.add_vulnerable
    not_vulnerable,     \* lines appended by data.add_not_vulnerable
    doneBy, ckptBy,     \* per target: calls of add_done, record_running_state
    pipeline,           \* snapshot_pipeline queue
    task_count,         \* snapshot_pipeline.task_count
    snapshot_greenlet,  \* "none", "running", "exited"
    status_bar_greenlet,\* "none", "running", "exited"
    trace,              \* the steps run has completed, in order
    output,             \* what the last call of report printed
    reports             \* calls of report so far

vars == << feed, th_num, config_ports, poc_dict, disable_snapshot, pc, outcome, fed, task, total, done,
           found, vulnerable, not_vulnerable, doneBy, ckptBy,
           pipeline, task_count, snapshot_greenlet, status_bar_greenlet, trace,
           output, reports >>

config_vars == << feed, th_num, config_ports, poc_dict, disable_snapshot, total >>
store_vars  == << done, found, vulnerable, not_vulnerable, doneBy, ckptBy >>
snap_vars   == << pipeline, task_count >>
run_vars    == << pc, outcome, fed, trace >>
obs_vars    == << snapshot_greenlet, status_bar_greenlet >>
out_vars    == << output, reports >>

Targets == 1..MaxTargets

\* nothing printed
NoOutput == [groups |-> << >>, sum |-> 0]

IdleTask == [pc |-> "idle", ports |-> << >>, port |-> 0, product |-> None,
             poc |-> 0, verified |-> FALSE, results |-> << >>]

InFlightPcs == {"port_scan", "fingerprint", "verify", "add_found", "add_vulnerable",
                "put", "add_not_vulnerable", "add_done", "record_running_state"}

InFlight == { t \in Targets : task[t].pc \in InFlightPcs }

\* ports = [items[1], ] if len(items) > 1 else self.config.ports
Ports(items) == IF Len(items) > 1 THEN << items[2] >> ELSE config_ports

RECURSIVE Probes(_, _)
Probes(f, ps) ==
    IF f = << >> THEN 0
    ELSE (IF Len(Head(f)) > 1 THEN 1 ELSE Len(ps)) + Probes(Tail(f), ps)

Init ==
    /\ feed \in Feeds
    /\ config_ports \in PortLists
    /\ poc_dict \in PocDicts
    /\ Probes(feed, config_ports) * Len(poc_dict["cam"]) <= MaxVerifies
    \* config.ports is read only for a target without a port: the shortest
    \* list stands for all when every target names its port
    /\ (\A i \in 1..Len(feed) : Len(feed[i]) > 1) =>
           \A ps \in PortLists : Len(config_ports) <= Len(ps)
    \* a pool larger than the feed runs as one of the size of the feed
    /\ th_num \in 1..MaxThNum
    /\ th_num <= Len(feed) \/ th_num = 1
    /\ disable_snapshot \in BOOLEAN
    /\ pc = "start"
    /\ outcome = "running"
    /\ fed = 0
    /\ task = [t \in Targets |-> IdleTask]
    /\ total = Len(feed)
    /\ done = 0
    /\ found = 0
    /\ vulnerable = << >>
    /\ not_vulnerable = << >>
    /\ doneBy = [t \in Targets |-> 0]
    /\ ckptBy = [t \in Targets |-> 0]
    /\ pipeline = << >>
    /\ task_count = 0
    /\ snapshot_greenlet = "none"
    /\ status_bar_greenlet = "none"
    /\ trace = << >>
    /\ output = NoOutput
    /\ reports = 0

\* Core.finish
finish == (done >= total) /\ (task_count <= 0)


\* ---------------------------------------------------------------- report
\* '▥' * block_num, at most this many for one bar
BarUnits == 25

\* i[2].split('-')[0]: the tokens of the field before its first dash
RECURSIVE FirstDash(_, _)
FirstDash(field, k) ==
    IF k > Len(field) THEN Len(field) + 1
    ELSE IF field[k] = "-" THEN k
    ELSE FirstDash(field, k + 1)

\* a device that is the whole field, dashes and all
DeviceWhole(field) == field

Device(field) == SubSeq(field, 1, FirstDash(field, 1) - 1)

\* i[-2]
VulNameBeforeLast(i) == i[Len(i) - 1]

\* i[-1]
VulName(i) == i[Len(i)]

\* results[dev][vul] += 1 on the insertion-ordered dictionaries: a dictionary
\* is the sequence of its << key, value >> pairs in insertion order
HasKey(dict, key) == \E k \in 1..Len(dict) : dict[k][1] = key

AddVul(vuls, vul) ==
    IF HasKey(vuls, vul)
    THEN [k \in 1..Len(vuls) |-> IF vuls[k][1] = vul
                                 THEN << vul, vuls[k][2] + 1 >> ELSE vuls[k]]
    ELSE Append(vuls, << vul, 1 >>)

AddItem(results, dev, vul) ==
    IF HasKey(results, dev)
    THEN [k \in 1..Len(results) |-> IF results[k][1] = dev
                                    THEN << dev, AddVul(results[k][2], vul) >>
                                    ELSE results[k]]
    ELSE Append(results, << dev, AddVul(<< >>, vul) >>)

\* for i in items: dev, vul = i[2].split('-')[0], i[-1]; results[dev][vul] += 1
RECURSIVE Group(_, _)
Group(items, results) ==
    IF items = << >> THEN results
    ELSE Group(Tail(items), AddItem(results, Device(Head(items)[3]), VulName(Head(items))))

RECURSIVE SumCounts(_)
SumCounts(vuls) == IF vuls = << >> THEN 0 ELSE Head(vuls)[2] + SumCounts(Tail(vuls))

RECURSIVE MaxCount(_)
MaxCount(vuls) ==
    IF vuls = << >> THEN 0
    ELSE LET m == MaxCount(Tail(vuls)) IN IF Head(vuls)[2] > m THEN Head(vuls)[2] ELSE m

\* max([val for vul in results.values() for val in vul.values()])
RECURSIVE ResultsMax(_)
ResultsMax(results) ==
    IF results = << >> THEN 0
    ELSE LET m == ResultsMax(Tail(results))
             h == MaxCount(Head(results)[2])
         IN IF h > m THEN h ELSE m

\* a bar rounded to the nearest unit, ties to even
BlockNumRounded(vul_count, results_max) ==
    LET twice == 2 * vul_count * BarUnits
        q == twice \div (2 * results_max)
        r == twice % (2 * results_max)
    IN IF r > results_max \/ (r = results_max /\ q % 2 = 1) THEN q + 1 ELSE q

\* block_num = int(vul_count / results_max * 25)
BlockNum(vul_count, results_max) == (vul_count * BarUnits) \div results_max

\* what report prints for the lines of the results file: per device, in
\* insertion order, its name and sum, and per vulnerability name its bar and
\* count; then the sum of all lines; nothing when there is no line
ReportOutput(items) ==
    IF items = << >> THEN NoOutput
    ELSE LET results == Group(items, << >>)
             results_sum == Len(items)
             results_max == ResultsMax(results)
         IN [groups |->
                [d \in 1..Len(results) |->
                   LET vuls == results[d][2] IN
                   [dev |-> results[d][1],
                    dev_sum |-> SumCounts(vuls),
                    vuls |-> [v \in 1..Len(vuls) |->
                                [vul_name |-> vuls[v][1],
                                 block_num |-> BlockNum(vuls[v][2], results_max),
                                 vul_count |-> vuls[v][2]]]]],
             sum |-> results_sum]

\* a report that keeps its counts from one call to the next
ReportAccumulates ==
    /\ output' = ReportOutput(IF reports = 0 THEN vulnerable ELSE vulnerable \o vulnerable)
    /\ reports' = reports + 1

\* Core.report: reads the results file and prints
Report ==
    /\ output' = ReportOutput(vulnerable)
    /\ reports' = reports + 1

\* ------------------------------------------------- progress store (Data)
add_found == found' = found + 1

add_vulnerable(items) == vulnerable' = Append(vulnerable, items)

add_not_vulnerable(items) == not_vulnerable' = Append(not_vulnerable, items)

add_done == done' = done + 1

\* ------------------------------------------- SnapshotPipeline (producer side)
\* put((poc.exploit, results)): enqueue without waiting for the consumer
snapshot_pipeline_put(msg) ==
    /\ pipeline' = Append(pipeline, msg)
    /\ task_count' = task_count + 1

\* ---------------------------------------------------------------- _scan
\* results[-6:]
SliceLastSix(results) ==
    SubSeq(results, Len(results) - Min(RecordFields, Len(results)) + 1, Len(results))

\* results[:6]
Slice(results) == SubSeq(results, 1, Min(RecordFields, Len(results)))

\* the for loop over ports moves on: next port, or the code after the loop
AfterPort(tk) ==
    IF tk.port < Len(tk.ports)
    THEN [tk EXCEPT !.pc = "port_scan", !.port = tk.port + 1, !.product = None,
                    !.poc = 0, !.verified = FALSE, !.results = << >>]
    ELSE [tk EXCEPT !.pc = "add_done", !.product = None,
                    !.poc = 0, !.verified = FALSE, !.results = << >>]

\* a loop over the checks that breaks at the first success
AfterPocBreak(tk) ==
    IF tk.poc < Len(poc_dict[tk.product]) /\ ~tk.verified
    THEN [tk EXCEPT !.pc = "verify", !.poc = tk.poc + 1, !.results = << >>]
    ELSE IF ~tk.verified
         THEN [tk EXCEPT !.pc = "add_not_vulnerable", !.results = << >>]
         ELSE AfterPort(tk)

\* a loop over the checks followed by add_not_vulnerable whatever verified
AfterPocAlwaysNegative(tk) ==
    IF tk.poc < Len(poc_dict[tk.product])
    THEN [tk EXCEPT !.pc = "verify", !.poc = tk.poc + 1, !.results = << >>]
    ELSE [tk EXCEPT !.pc = "add_not_vulnerable", !.results = << >>]

\* the for loop over self.poc_dict[product] moves on: next check, or
\* "if not verified" after the loop
AfterPoc(tk) ==
    IF tk.poc < Len(poc_dict[tk.product])
    THEN [tk EXCEPT !.pc = "verify", !.poc = tk.poc + 1, !.results = << >>]
    ELSE IF ~tk.verified
         THEN [tk EXCEPT !.pc = "add_not_vulnerable", !.results = << >>]
         ELSE AfterPort(tk)

\* if port_scan(ip, port, self.config.timeout)
ScanPortScan(t) ==
    /\ pc \in {"feed", "join_pool"}
    /\ task[t].pc = "port_scan"
    /\ \E open \in BOOLEAN :
          task' = [task EXCEPT ![t] = IF open THEN [task[t] EXCEPT !.pc = "fingerprint"]
                                             ELSE AfterPort(task[t])]
    /\ UNCHANGED << out_vars, config_vars, store_vars, snap_vars, run_vars, obs_vars >>

\* if product := fingerprint(ip, port, self.config): verified = False
ScanFingerprint(t) ==
    /\ pc \in {"feed", "join_pool"}
    /\ task[t].pc = "fingerprint"
    /\ \E product \in Products \cup {None} :
          task' = [task EXCEPT ![t] =
                     IF product = None THEN AfterPort(task[t])
                     ELSE AfterPoc([task[t] EXCEPT !.product = product, !.poc = 0,
                                                   !.verified = FALSE])]
    /\ UNCHANGED << out_vars, config_vars, store_vars, snap_vars, run_vars, obs_vars >>

\* if results := poc.verify(ip, port): verified = True
ScanVerify(t) ==
    /\ pc \in {"feed", "join_pool"}
    /\ task[t].pc = "verify"
    /\ \E success \in BOOLEAN :
          task' = [task EXCEPT ![t] =
                     IF ~success THEN AfterPoc(task[t])
                     ELSE [task[t] EXCEPT
                             !.pc = "add_found", !.verified = TRUE,
                             !.results = VerifyResult(t, task[t].ports[task[t].port],
                                                      task[t].product, task[t].poc)]]
    /\ UNCHANGED << out_vars, config_vars, store_vars, snap_vars, run_vars, obs_vars >>

\* a raise in one task that ends the whole run
ScanRaiseKillsRun(t) ==
    /\ pc \in {"feed", "join_pool"}
    /\ task[t].pc \in {"port_scan", "fingerprint", "verify"}
    /\ task' = [task EXCEPT ![t] = [task[t] EXCEPT !.pc = "raised"]]
    /\ pc' = "stopped"
    /\ outcome' = "error"
    /\ UNCHANGED << out_vars, config_vars, store_vars, snap_vars, fed, trace, obs_vars >>

\* port_scan, fingerprint or poc.verify raises: _scan has no handler, the
\* exception leaves _scan and the greenlet dies (the pool discards it)
ScanRaise(t) ==
    /\ pc \in {"feed", "join_pool"}
    /\ task[t].pc \in {"port_scan", "fingerprint", "verify"}
    /\ task' = [task EXCEPT ![t] = [task[t] EXCEPT !.pc = "raised"]]
    /\ UNCHANGED << out_vars, config_vars, store_vars, snap_vars, run_vars, obs_vars >>

\* found counted twice for one verified check
ScanAddFoundTwice(t) ==
    /\ pc \in {"feed", "join_pool"}
    /\ task[t].pc = "add_found"
    /\ found' = found + 2
    /\ task' = [task EXCEPT ![t] = [task[t] EXCEPT !.pc = "add_vulnerable"]]
    /\ UNCHANGED << out_vars, config_vars, done, vulnerable, not_vulnerable,
                    doneBy, ckptBy, snap_vars, run_vars, obs_vars >>

\* self.data.add_found()
ScanAddFound(t) ==
    /\ pc \in {"feed", "join_pool"}
    /\ task[t].pc = "add_found"
    /\ add_found
    /\ task' = [task EXCEPT ![t] = [task[t] EXCEPT !.pc = "add_vulnerable"]]
    /\ UNCHANGED << out_vars, config_vars, done, vulnerable, not_vulnerable, doneBy, ckptBy, snap_vars, run_vars, obs_vars >>

\* a task that counts itself done when it appends its record, before its put
ScanAddVulnerableCountsDone(t) ==
    /\ pc \in {"feed", "join_pool"}
    /\ task[t].pc = "add_vulnerable"
    /\ add_vulnerable(Slice(task[t].results))
    /\ done' = done + 1
    /\ task' = [task EXCEPT ![t] = IF ~disable_snapshot
                                   THEN [task[t] EXCEPT !.pc = "put"]
                                   ELSE AfterPoc(task[t])]
    /\ UNCHANGED << out_vars, config_vars, found, not_vulnerable, doneBy, ckptBy, snap_vars, run_vars, obs_vars >>

\* self.data.add_vulnerable(results[:6]); if not self.config.disable_snapshot
ScanAddVulnerable(t) ==
    /\ pc \in {"feed", "join_pool"}
    /\ task[t].pc = "add_vulnerable"
    /\ add_vulnerable(Slice(task[t].results))
    /\ task' = [task EXCEPT ![t] = IF ~disable_snapshot
                                   THEN [task[t] EXCEPT !.pc = "put"]
                                   ELSE AfterPoc(task[t])]
    /\ UNCHANGED << out_vars, config_vars, done, found, not_vulnerable, doneBy, ckptBy, snap_vars, run_vars, obs_vars >>

\* a put that pairs the result with the exploit of the first check of the list
ScanPutFirstExploit(t) ==
    /\ pc \in {"feed", "join_pool"}
    /\ task[t].pc = "put"
    /\ snapshot_pipeline_put(<< <<"exploit", task[t].product, 1>>, task[t].results >>)
    /\ task' = [task EXCEPT ![t] = AfterPoc(task[t])]
    /\ UNCHANGED << out_vars, config_vars, store_vars, run_vars, obs_vars >>

\* self.snapshot_pipeline.put((poc.exploit, results))
ScanPut(t) ==
    /\ pc \in {"feed", "join_pool"}
    /\ task[t].pc = "put"
    /\ snapshot_pipeline_put(<< <<"exploit", task[t].product, task[t].poc>>,
                                task[t].results >>)
    /\ task' = [task EXCEPT ![t] = AfterPoc(task[t])]
    /\ UNCHANGED << out_vars, config_vars, store_vars, run_vars, obs_vars >>

\* if not verified: self.data.add_not_vulnerable([ip, str(port), product])
ScanAddNotVulnerable(t) ==
    /\ pc \in {"feed", "join_pool"}
    /\ task[t].pc = "add_not_vulnerable"
    /\ add_not_vulnerable(<< t, task[t].ports[task[t].port], task[t].product >>)
    /\ task' = [task EXCEPT ![t] = AfterPort(task[t])]
    /\ UNCHANGED << out_vars, config_vars, done, found, vulnerable, doneBy, ckptBy, snap_vars, run_vars, obs_vars >>

\* self.data.add_done()
ScanAddDone(t) ==
    /\ pc \in {"feed", "join_pool"}
    /\ task[t].pc = "add_done"
    /\ add_done
    /\ doneBy' = [doneBy EXCEPT ![t] = @ + 1]
    /\ task' = [task EXCEPT ![t] = [task[t] EXCEPT !.pc = "record_running_state"]]
    /\ UNCHANGED << out_vars, config_vars, found, vulnerable, not_vulnerable,
                    ckptBy, snap_vars, run_vars, obs_vars >>

\* self.data.record_running_state(); _scan returns
ScanRecordRunningState(t) ==
    /\ pc \in {"feed", "join_pool"}
    /\ task[t].pc = "record_running_state"
    /\ ckptBy' = [ckptBy EXCEPT ![t] = @ + 1]
    /\ task' = [task EXCEPT ![t] = [task[t] EXCEPT !.pc = "finished"]]
    /\ UNCHANGED << out_vars, config_vars, done, found, vulnerable, not_vulnerable,
                    doneBy, snap_vars, run_vars, obs_vars >>

\* ----------------------------------------------------------------- run
\* status_bar_greenlet = gevent.spawn(status_bar, self); the snapshot consumer
\* if enabled; scan_pool = geventPool(self.config.th_num)
RunStart ==
    /\ pc = "start"
    /\ status_bar_greenlet' = "running"
    /\ snapshot_greenlet' = IF ~disable_snapshot THEN "running" ELSE "none"
    /\ pc' = "feed"
    /\ trace' = Append(trace, "start")
    /\ UNCHANGED << out_vars, config_vars, store_vars, snap_vars, outcome, fed, task >>

\* a spawn that does not wait for a free slot
RunSpawnUnbounded ==
    /\ pc = "feed"
    /\ fed < Len(feed)
    /\ fed' = fed + 1
    /\ task' = [task EXCEPT ![fed + 1] =
                  [IdleTask EXCEPT !.pc = "port_scan", !.ports = Ports(feed[fed + 1]),
                                   !.port = 1]]
    /\ UNCHANGED << out_vars, config_vars, store_vars, snap_vars, pc, outcome, trace, obs_vars >>

\* for ip in self.data.ip_generator: scan_pool.spawn(self._scan, ip)
\* Pool.spawn waits for a free slot of the pool's th_num before it starts
\* the greenlet
RunSpawn ==
    /\ pc = "feed"
    /\ fed < Len(feed)
    /\ Cardinality(InFlight) < th_num
    /\ fed' = fed + 1
    /\ task' = [task EXCEPT ![fed + 1] =
                  [IdleTask EXCEPT !.pc = "port_scan", !.ports = Ports(feed[fed + 1]),
                                   !.port = 1]]
    /\ UNCHANGED << out_vars, config_vars, store_vars, snap_vars, pc, outcome, trace, obs_vars >>

\* the ip generator is exhausted: the for loop ends
RunFeedExhausted ==
    /\ pc = "feed"
    /\ fed = Len(feed)
    /\ pc' = "join_pool"
    /\ UNCHANGED << out_vars, config_vars, store_vars, snap_vars, outcome, fed, trace, task,
                    obs_vars >>

\* a join of the pool that does not wait for its greenlets
RunJoinPoolNoWait ==
    /\ pc = "join_pool"
    /\ pc' = IF snapshot_greenlet # "none" THEN "join_snapshot" ELSE "join_status"
    /\ trace' = Append(trace, "join_pool")
    /\ UNCHANGED << out_vars, config_vars, store_vars, snap_vars, outcome, fed, task, obs_vars >>

\* scan_pool.join(): returns when no greenlet of the pool is left
RunJoinPool ==
    /\ pc = "join_pool"
    /\ InFlight = {}
    /\ pc' = IF snapshot_greenlet # "none" THEN "join_snapshot" ELSE "join_status"
    /\ trace' = Append(trace, "join_pool")
    /\ UNCHANGED << out_vars, config_vars, store_vars, snap_vars, outcome, fed, task, obs_vars >>

\* a join of the snapshot consumer without timeout
RunJoinSnapshotNoTimeout ==
    /\ pc = "join_snapshot"
    /\ snapshot_greenlet = "exited"
    /\ pc' = "join_status"
    /\ trace' = Append(trace, "join_snapshot")
    /\ UNCHANGED << out_vars, config_vars, store_vars, snap_vars, outcome, fed, task, obs_vars >>

\* snapshot_pipeline_greenlet.join(timeout=10): the greenlet ended, or the
\* timeout expired
RunJoinSnapshot ==
    /\ pc = "join_snapshot"
    /\ \E timed_out \in BOOLEAN : timed_out \/ snapshot_greenlet = "exited"
    /\ pc' = "join_status"
    /\ trace' = Append(trace, "join_snapshot")
    /\ UNCHANGED << out_vars, config_vars, store_vars, snap_vars, outcome, fed, task, obs_vars >>

\* status_bar_greenlet.join(timeout=2)
RunJoinStatus ==
    /\ pc = "join_status"
    /\ \E timed_out \in BOOLEAN : timed_out \/ status_bar_greenlet = "exited"
    /\ pc' = "report"
    /\ trace' = Append(trace, "join_status")
    /\ UNCHANGED << out_vars, config_vars, store_vars, snap_vars, outcome, fed, task, obs_vars >>

\* self.report(); run returns
RunReport ==
    /\ pc = "report"
    /\ Report
    /\ pc' = "done"
    /\ outcome' = "normal"
    /\ trace' = Append(trace, "report")
    /\ UNCHANGED << config_vars, store_vars, snap_vars, fed, task, obs_vars >>

\* except KeyboardInterrupt: pass
RunKeyboardInterrupt ==
    /\ pc \in {"start", "feed", "join_pool", "join_snapshot", "join_status", "report"}
    /\ pc' = "stopped"
    /\ outcome' = "interrupt"
    /\ UNCHANGED << out_vars, config_vars, store_vars, snap_vars, fed, trace, task, obs_vars >>

\* except Exception as e: logger.error(e), for an error of the ip generator
RunException ==
    /\ pc = "feed"
    /\ pc' = "stopped"
    /\ outcome' = "error"
    /\ UNCHANGED << out_vars, config_vars, store_vars, snap_vars, fed, trace, task, obs_vars >>

\* ------------------------------------ SnapshotPipeline.process, status_bar
Live == pc \in {"feed", "join_pool", "join_snapshot", "join_status", "report"}

\* the consumer takes a job, runs its exploit and counts the job finished
SnapshotProcessJob ==
    /\ Live
    /\ snapshot_greenlet = "running"
    /\ pipeline # << >>
    /\ pipeline' = Tail(pipeline)
    /\ task_count' = task_count - 1
    /\ UNCHANGED << out_vars, config_vars, store_vars, run_vars, task, obs_vars >>

\* the consumer ends once core.finish()
SnapshotProcessExit ==
    /\ Live
    /\ snapshot_greenlet = "running"
    /\ finish
    /\ snapshot_greenlet' = "exited"
    /\ UNCHANGED << out_vars, config_vars, store_vars, snap_vars, run_vars, task,
                    status_bar_greenlet >>

\* the status bar ends once core.finish()
StatusBarExit ==
    /\ Live
    /\ status_bar_greenlet = "running"
    /\ finish
    /\ status_bar_greenlet' = "exited"
    /\ UNCHANGED << out_vars, config_vars, store_vars, snap_vars, run_vars, task,
                    snapshot_greenlet >>

\* ------------------------------------------------------------ specification
Scan(t) ==
    \/ ScanPortScan(t)
    \/ ScanFingerprint(t)
    \/ ScanVerify(t)
    \/ ScanRaise(t)
    \/ ScanAddFound(t)
    \/ ScanAddVulnerable(t)
    \/ ScanPut(t)
    \/ ScanAddNotVulnerable(t)
    \/ ScanAddDone(t)
    \/ ScanRecordRunningState(t)

Run ==
    \/ RunStart
    \/ RunSpawn
    \/ RunFeedExhausted
    \/ RunJoinPool
    \/ RunJoinSnapshot
    \/ RunJoinStatus
    \/ RunReport

Next ==
    \/ Run
    \/ RunKeyboardInterrupt
    \/ RunException
    \/ \E t \in Targets : Scan(t)
    \/ SnapshotProcessJob
    \/ SnapshotProcessExit
    \/ StatusBarExit

Spec == Init /\ [][Next]_vars

\* the main greenlet is scheduled again whenever it can go on: a join with a
\* timeout returns at the latest when the timeout expires
LiveSpec == Spec /\ WF_vars(Run)


\* ------------------------------------------- report on its own, on any log
MaxLines == 5        \* lines of the results file report is given, at most
MaxReports == 2      \* calls of report in a row

\* the lines a results file can hold: records of findings of either product,
\* by a check whose result has 6 fields and by one whose result has 7
LogLines == { Slice(VerifyResult(1, 1, product, poc)) :
                 product \in Products, poc \in {1, 2} }

Logs == UNION { [1..n -> LogLines] : n \in 0..MaxLines }

\* core constructed over a results file left by earlier runs, nothing to scan
InitReport ==
    /\ feed = << >>
    /\ config_ports \in PortLists
    /\ poc_dict \in PocDicts
    /\ Len(config_ports) = 2 /\ Len(poc_dict["cam"]) = 1
    /\ th_num = 1
    /\ disable_snapshot = TRUE
    /\ pc = "start"
    /\ outcome = "running"
    /\ fed = 0
    /\ task = [t \in Targets |-> IdleTask]
    /\ total = 0
    /\ done = 0
    /\ found = 0
    /\ vulnerable \in Logs
    /\ not_vulnerable = << >>
    /\ doneBy = [t \in Targets |-> 0]
    /\ ckptBy = [t \in Targets |-> 0]
    /\ pipeline = << >>
    /\ task_count = 0
    /\ snapshot_greenlet = "none"
    /\ status_bar_greenlet = "none"
    /\ trace = << >>
    /\ output = NoOutput
    /\ reports = 0

\* core.report() called by itself
ReportCall ==
    /\ reports < MaxReports
    /\ Report
    /\ UNCHANGED << config_vars, store_vars, snap_vars, run_vars, task, obs_vars >>

ReportSpec == InitReport /\ [][ReportCall]_vars

\* ------------------------------------------------------------------ claims
Ended(t) == task[t].pc \in {"finished", "raised"}

Dispatched == { t \in Targets : task[t].pc # "idle" }

\* the targets whose records are in a log: the ip field of each line
VulnerableOf(t) == SelectSeq(vulnerable, LAMBDA r : r[1] = <<"ip", t>>)
NotVulnerableOf(t) == SelectSeq(not_vulnerable, LAMBDA r : r[1] = t)

\* C1: an error raised by port_scan, fingerprint or poc.verify on one port is
\* contained at that port: a task only ever ends by returning, after it has
\* gone through every port of its target; no task ends with an exception.
C1_ErrorContainedAtPort ==
    \A t \in Targets :
        /\ task[t].pc # "raised"
        /\ Ended(t) => task[t].port = Len(task[t].ports)

\* C2: a check that raises for one target changes nothing that is recorded
\* for the other targets (the step that raises leaves both logs, the
\* counters, every other task and run itself as they were), and a run that
\* completes has dispatched every target of the feed, each sibling of a
\* raising target having returned with its single add_done.
C2_RaiseStepIsolated ==
    \A u \in Targets :
        (task[u].pc # "raised" /\ task'[u].pc = "raised") =>
            /\ vulnerable' = vulnerable
            /\ not_vulnerable' = not_vulnerable
            /\ done' = done /\ found' = found
            /\ doneBy' = doneBy /\ ckptBy' = ckptBy
            /\ pipeline' = pipeline /\ task_count' = task_count
            /\ \A t \in Targets \ {u} : task'[t] = task[t]
            /\ pc' = pc /\ outcome' = outcome /\ fed' = fed

C2_AllDispatched ==
    pc = "done" =>
        /\ fed = Len(feed)
        /\ \A t \in 1..Len(feed) :
              /\ Ended(t)
              /\ task[t].pc = "finished" => doneBy[t] = 1 /\ ckptBy[t] = 1

\* C2: the raising step is isolated and a completed run has dispatched every
\* target, each returning sibling counted once.
C2_SiblingsUnaffected == [][C2_RaiseStepIsolated]_vars /\ []C2_AllDispatched

\* a check raised for one target and a sibling still has its finding in the log
C2_Witness ==
    /\ pc = "done"
    /\ \E u, t \in Targets :
          /\ u # t
          /\ task[u].pc = "raised" /\ task[u].poc > 0
          /\ task[t].pc = "finished"
          /\ Len(VulnerableOf(t)) > 0

\* C3: for every dispatched target add_done and record_running_state are
\* each called exactly once, after all its ports have been processed,
\* whatever happened on those ports.
C3_DoneAndCheckpointOnce ==
    \A t \in Targets :
        /\ doneBy[t] <= 1 /\ ckptBy[t] <= 1
        /\ doneBy[t] = 1 => task[t].port = Len(task[t].ports)
        /\ Ended(t) => doneBy[t] = 1 /\ ckptBy[t] = 1

\* C4: found <= done in every reachable state.
C4_FoundLeDone == found <= done

\* the longest list of checks of the registry
LongestPocList == Len(poc_dict["cam"])

RECURSIVE SumPorts(_)
SumPorts(S) ==
    IF S = {} THEN 0
    ELSE LET t == CHOOSE x \in S : TRUE IN Len(task[t].ports) + SumPorts(S \ {t})

\* C4 (amended): done never exceeds the number of targets dispatched, which
\* never exceeds total; found counts verified checks, not targets: it is at
\* most the number of (port, check) pairs of the targets dispatched so far.
C4_FoundLeChecks ==
    /\ done <= fed /\ fed <= total
    /\ found <= SumPorts(Dispatched) * LongestPocList

\* found has passed done: two checks verified on the one port of one target
C4_Witness == found = 2 /\ done = 1 /\ pc = "done"

\* C5: when a run completes normally done = total, the number of targets the
\* feed produced, each handed to exactly one task.
C5_DoneEqualsTotal ==
    pc = "done" => done = total /\ fed = total

\* C6: never more than th_num scan tasks in flight; with th_num in flight the
\* feeding loop cannot spawn.
C6_AtMostThNumInFlight ==
    /\ Cardinality(InFlight) <= th_num
    /\ Cardinality(InFlight) >= th_num => ~ENABLED RunSpawn

\* the pool is saturated while the feed still has a target to hand out
C6_Witness ==
    /\ pc = "feed"
    /\ fed < Len(feed)
    /\ Cardinality(InFlight) = th_num

\* C7: every line handed to add_vulnerable has exactly 6 fields, the first six
\* of the poc.verify result in their order, and a line is appended only by a
\* task whose check has just verified.
C7_RecordWellFormed ==
    \A i \in 1..Len(vulnerable) :
        LET r == vulnerable[i] IN
        /\ Len(r) = RecordFields
        /\ \E t \in Targets, port \in 1..MaxPorts, product \in Products, poc \in 1..MaxPocs :
               \A k \in 1..RecordFields : r[k] = VerifyResult(t, port, product, poc)[k]

C7_AppendAfterVerify ==
    vulnerable' # vulnerable =>
        \E t \in Targets :
            /\ task[t].pc = "add_vulnerable"
            /\ task[t].verified
            /\ task[t].results =
                   VerifyResult(t, task[t].ports[task[t].port], task[t].product,
                                task[t].poc)
            /\ Len(vulnerable') = Len(vulnerable) + 1
            /\ SubSeq(vulnerable', 1, Len(vulnerable)) = vulnerable
            /\ \A k \in 1..RecordFields :
                   vulnerable'[Len(vulnerable')][k] = task[t].results[k]

\* C7: every persisted record is the first six fields of a verify result, and
\* the log grows only by the step of a task whose check has verified.
C7_SixFieldsAfterSuccess == []C7_RecordWellFormed /\ [][C7_AppendAfterVerify]_vars

\* a 7-field result has been persisted as a record
C7_Witness ==
    \E i \in 1..Len(vulnerable) :
        /\ vulnerable[i][3] = <<"cam", "-", "2">>
        /\ ResultLen(2) > RecordFields

\* scan_pool.join has returned
JoinReturned == pc \in {"join_snapshot", "join_status", "report", "done"}

\* C8: enqueueing never waits on the consumer: a task at put can always take
\* its step, and once scan_pool.join has returned every task whose job is
\* still in the queue has incremented done.
C8_EnqueueNeverBlocks ==
    /\ \A t \in Targets :
          (pc \in {"feed", "join_pool"} /\ task[t].pc = "put") => ENABLED ScanPut(t)
    /\ JoinReturned =>
          \A i \in 1..Len(pipeline) : doneBy[pipeline[i][2][1][2]] = 1

\* C9: on a normal run report is called exactly once, after scan_pool.join,
\* then the wait for the snapshot consumer (when one was started), then the
\* wait for the status bar; no scan task is in flight or still to be started
\* once report runs.
C9_ReportOnceAfterWaits ==
    /\ Len(SelectSeq(trace, LAMBDA e : e = "report")) <= 1
    /\ pc = "done" =>
          trace = IF disable_snapshot
                  THEN << "start", "join_pool", "join_status", "report" >>
                  ELSE << "start", "join_pool", "join_snapshot", "join_status", "report" >>
    /\ pc \in {"report", "done"} => InFlight = {} /\ fed = Len(feed)

\* report has run after tasks ran and the snapshot consumer was waited for
C9_Witness ==
    /\ pc = "done"
    /\ ~disable_snapshot
    /\ \E t \in Targets : task[t].pc = "finished"

\* the feed is exhausted and every dispatched task has completed
Drained == pc \in {"join_pool", "join_snapshot", "join_status"} /\ InFlight = {}

\* C10: once the feed is exhausted and every dispatched task has completed,
\* run reaches report and then its end, unless it is interrupted, even with
\* snapshot jobs outstanding; the snapshot consumer is waited for once only.
C10_DrainingReachesDone ==
    /\ Drained ~> (pc = "done" \/ outcome = "interrupt")
    /\ [][pc' = "join_snapshot" => pc \in {"join_pool", "join_snapshot"}]_vars

\* run has ended normally with snapshot jobs still outstanding
C10_Witness == pc = "done" /\ task_count > 0 /\ snapshot_greenlet = "running"

\* run has gone through the wait for the snapshot consumer, when one was
\* started, and the wait for the status bar
ShutdownAttempted ==
    /\ \E k \in 1..Len(trace) : trace[k] = "join_status"
    /\ snapshot_greenlet # "none" => \E k \in 1..Len(trace) : trace[k] = "join_snapshot"

\* C11: after an interrupt while targets are fed or run is draining, run stops
\* cleanly: no further target is dispatched, the waits for the snapshot
\* consumer and the status bar are still gone through, and report is not
\* called.
C11_InterruptCleanStop ==
    (outcome = "interrupt" /\ trace # << >>) =>
        /\ pc = "stopped"
        /\ ~ENABLED RunSpawn
        /\ reports = 0
        /\ ShutdownAttempted

\* C12: an error other than an interrupt in the main loop of run is logged,
\* does not leave run, and run then goes through the same waits for the
\* snapshot consumer and the status bar before it stops.
C12_ErrorCleanStop ==
    outcome = "error" => pc = "stopped" /\ ShutdownAttempted

\* ---- the Reporter, against counts taken from the log directly ----

\* the part of a field before its first dash
PrefixBeforeDash(field) ==
    CHOOSE p \in { SubSeq(field, 1, n) : n \in 0..Len(field) } :
        /\ \A k \in 1..Len(p) : p[k] # "-"
        /\ Len(p) = Len(field) \/ field[Len(p) + 1] = "-"

LinesOfDevice(log, dev) == { k \in 1..Len(log) : PrefixBeforeDash(log[k][3]) = dev }

LinesOfGroup(log, dev, name) ==
    { k \in LinesOfDevice(log, dev) : log[k][Len(log[k])] = name }

CountOf(log, dev, name) == Cardinality(LinesOfGroup(log, dev, name))

LargestCount(log) ==
    LET counts == { CountOf(log, PrefixBeforeDash(log[k][3]), log[k][Len(log[k])]) :
                      k \in 1..Len(log) }
    IN IF counts = {} THEN 0 ELSE CHOOSE m \in counts : \A c \in counts : c <= m

FirstLineOf(log, dev) ==
    CHOOSE k \in LinesOfDevice(log, dev) : \A j \in LinesOfDevice(log, dev) : k <= j

Reported == reports >= 1 /\ vulnerable # << >>

\* every group of the log has its line in the output
EveryGroupPrinted ==
    \A k \in 1..Len(vulnerable) :
        \E g \in 1..Len(output.groups) :
            /\ output.groups[g].dev = PrefixBeforeDash(vulnerable[k][3])
            /\ \E v \in 1..Len(output.groups[g].vuls) :
                  output.groups[g].vuls[v].vul_name = vulnerable[k][Len(vulnerable[k])]

\* C13 as stated: once report has run on a non-empty log, every group's bar
\* is round(count / max * 25) units long, count and max taken from the log
C13_BarIsRounded ==
    Reported =>
        \A g \in 1..Len(output.groups) : \A v \in 1..Len(output.groups[g].vuls) :
            output.groups[g].vuls[v].block_num =
                BlockNumRounded(CountOf(vulnerable, output.groups[g].dev,
                                        output.groups[g].vuls[v].vul_name),
                                LargestCount(vulnerable))

\* C13 amended: once report has run on a non-empty log, every group of the
\* log is printed with a bar of floor(count * 25 / max) units (the fraction
\* is cut off, not rounded), count being the group's number of lines and max
\* the largest count of any group; a group with count = max gets 25 units
C13_BarIsTruncated ==
    Reported =>
        /\ EveryGroupPrinted
        /\ \A g \in 1..Len(output.groups) : \A v \in 1..Len(output.groups[g].vuls) :
              LET count == CountOf(vulnerable, output.groups[g].dev,
                                   output.groups[g].vuls[v].vul_name)
                  max == LargestCount(vulnerable)
                  bar == output.groups[g].vuls[v].block_num
              IN /\ count >= 1 /\ max >= count
                 /\ bar * max <= count * 25
                 /\ count * 25 < (bar + 1) * max
                 /\ count = max => bar = 25

\* a report whose largest group has 3 lines and another group 2: the bar of
\* the smaller group is 16 units where rounding would give 17
C13_Witness ==
    /\ Reported
    /\ LargestCount(vulnerable) = 3
    /\ \E g \in 1..Len(output.groups) : \E v \in 1..Len(output.groups[g].vuls) :
          /\ output.groups[g].vuls[v].vul_count = 2
          /\ output.groups[g].vuls[v].block_num = 16

\* C14: once report has run on a non-empty log, the count printed for each
\* (device, name) pair is the number of lines with that device (field 3
\* before its first dash) and name (last field), each pair is printed once,
\* the sum of a device is the number of its lines, the total is the number
\* of lines, and devices are printed in the order of their first lines
C14_GroupedCounts ==
    Reported =>
        /\ EveryGroupPrinted
        /\ output.sum = Len(vulnerable)
        /\ \A g \in 1..Len(output.groups) :
              LET grp == output.groups[g] IN
              /\ grp.dev_sum = Cardinality(LinesOfDevice(vulnerable, grp.dev))
              /\ grp.dev_sum >= 1
              /\ \A h \in 1..Len(output.groups) :
                    g < h => /\ output.groups[h].dev # grp.dev
                             /\ LinesOfDevice(vulnerable, output.groups[h].dev) # {}
                             /\ FirstLineOf(vulnerable, grp.dev)
                                   < FirstLineOf(vulnerable, output.groups[h].dev)
              /\ \A v \in 1..Len(grp.vuls) :
                    /\ grp.vuls[v].vul_count = CountOf(vulnerable, grp.dev, grp.vuls[v].vul_name)
                    /\ grp.vuls[v].vul_count >= 1
                    /\ \A w \in 1..Len(grp.vuls) :
                          v # w => grp.vuls[w].vul_name # grp.vuls[v].vul_name

\* a report of two devices, the second printed having more lines than the
\* first, with two names under one device
C14_Witness ==
    /\ Reported
    /\ Len(output.groups) = 2
    /\ output.groups[1].dev = << "dvr" >>
    /\ output.groups[2].dev_sum > output.groups[1].dev_sum
    /\ Len(output.groups[2].vuls) = 2

InChecks(tk) == tk.pc \in {"verify", "add_found", "add_vulnerable", "put"}

\* a step of a task inside the loop stays at the same port with the same or
\* the next check, unless a check raised or the last check of the list is done
C16_LoopRunsToLastCheck ==
    \A t \in Targets :
        (InChecks(task[t]) /\ task'[t] # task[t]) =>
            \/ task'[t].pc = "raised" /\ task[t].pc = "verify"
            \/ /\ InChecks(task'[t])
               /\ task'[t].port = task[t].port /\ task'[t].product = task[t].product
               /\ \/ task'[t].poc = task[t].poc /\ task'[t].pc # "verify"
                  \/ task'[t].poc = task[t].poc + 1 /\ task'[t].pc = "verify"
            \/ /\ ~InChecks(task'[t])
               /\ task[t].poc = Len(poc_dict[task[t].product])

\* found moves by one, by the step of a task that has just verified; that
\* task appends its record next
C16_FoundPerSuccess ==
    /\ found' # found =>
          \E t \in Targets : /\ task[t].pc = "add_found" /\ task[t].verified
                             /\ found' = found + 1
                             /\ task'[t].pc = "add_vulnerable"
                             /\ task'[t].poc = task[t].poc
    /\ \A t \in Targets :
          /\ (task[t].pc = "add_found" /\ task'[t] # task[t]) => found' = found + 1
          /\ (task[t].pc = "add_vulnerable" /\ task'[t] # task[t]) =>
                 vulnerable' = Append(vulnerable, SubSeq(task[t].results, 1, RecordFields))
          /\ (task[t].pc = "verify" /\ task'[t].pc = "add_found") =>
                 task'[t].poc = task[t].poc

C16_FoundIsRecords ==
    found = Len(vulnerable) + Cardinality({ t \in Targets : task[t].pc = "add_vulnerable" })

\* C16: a success does not end the loop over the checks of a port: the loop
\* goes on to the next check until the last one of the list (or until a check
\* raises); each success increments found once and appends one record, so
\* found is the number of records plus the tasks between add_found and
\* add_vulnerable
C16_EveryCheckAttempted ==
    /\ [][C16_LoopRunsToLastCheck /\ C16_FoundPerSuccess]_vars
    /\ []C16_FoundIsRecords

\* both checks of one port verified: found is 2 and the log holds the two
\* records of that port
C16_Witness ==
    /\ found = 2 /\ Len(vulnerable) = 2
    /\ vulnerable[1][1] = vulnerable[2][1] /\ vulnerable[1][2] = vulnerable[2][2]
    /\ vulnerable[1][3] = << "cam", "-", "1" >>
    /\ vulnerable[2][3] = << "cam", "-", "2" >>


\* the port a task is at
PortOf(tk) == tk.ports[tk.port]

\* the records of one port of one target in the log of findings
FindingsAt(t, port) ==
    { i \in 1..Len(vulnerable) :
        vulnerable[i][1] = << "ip", t >> /\ vulnerable[i][2] = << "port", port >> }

\* the negative log grows only by one << ip, port, product >> of a task whose
\* port was open and fingerprinted and whose checks all ran without a
\* success; such a task appends it; a closed port or a port without a
\* product changes no log and not found
C17_NegativeStep ==
    /\ not_vulnerable' # not_vulnerable =>
          \E t \in Targets :
              /\ task[t].pc = "add_not_vulnerable"
              /\ task[t].product \in Products
              /\ ~task[t].verified
              /\ task[t].poc = Len(poc_dict[task[t].product])
              /\ FindingsAt(t, PortOf(task[t])) = {}
              /\ not_vulnerable' =
                     Append(not_vulnerable, << t, PortOf(task[t]), task[t].product >>)
    /\ \A t \in Targets :
          /\ (task[t].pc = "add_not_vulnerable" /\ task'[t] # task[t]) =>
                 /\ Len(not_vulnerable') = Len(not_vulnerable) + 1
                 /\ task'[t].pc \in {"port_scan", "add_done"}
          /\ (task[t].pc \in {"port_scan", "fingerprint"} /\ task'[t] # task[t]) =>
                 UNCHANGED << vulnerable, not_vulnerable, found >>
          /\ (task[t].pc = "port_scan" /\ task'[t] # task[t]) =>
                 task'[t].pc \in {"fingerprint", "port_scan", "add_done", "raised"}
          /\ (task[t].pc = "fingerprint" /\ task'[t].pc = "add_not_vulnerable") =>
                 /\ task'[t].product \in Products
                 /\ poc_dict[task'[t].product] = << >>
          /\ (InChecks(task[t]) /\ ~InChecks(task'[t]) /\ task'[t].pc # "raised") =>
                 (task'[t].pc = "add_not_vulnerable" <=> ~task[t].verified)

\* a port has at most one negative record, and none when it has a finding
C17_NegativeOnce ==
    \A i \in 1..Len(not_vulnerable) :
        /\ \A j \in 1..Len(not_vulnerable) :
              (not_vulnerable[i][1] = not_vulnerable[j][1]
                 /\ not_vulnerable[i][2] = not_vulnerable[j][2]) => i = j
        /\ not_vulnerable[i][3] \in Products
        /\ FindingsAt(not_vulnerable[i][1], not_vulnerable[i][2]) = {}

\* C17: a port gets its negative record << ip, port, product >> once, when it
\* was open, a product was fingerprinted and no check verified (a product
\* without checks included), and never otherwise: a closed port or a port
\* without a product leaves both logs and found alone, and a port with a
\* finding has no negative record
C17_NegativeRecordIffNoSuccess == [][C17_NegativeStep]_vars /\ []C17_NegativeOnce

\* a run that ended with a finding at one port and a negative record at
\* another port of the same target
C17_Witness ==
    /\ pc = "done"
    /\ \E i \in 1..Len(not_vulnerable) : \E j \in 1..Len(vulnerable) :
          /\ vulnerable[j][1] = << "ip", not_vulnerable[i][1] >>
          /\ vulnerable[j][2] # << "port", not_vulnerable[i][2] >>

\* the queue of snapshot jobs grows only by the put of a task whose check
\* has verified and whose record is in the log: one job, the exploit of that
\* check with the result of that check; a task that has appended its record
\* goes to put exactly when snapshots are enabled, and a task at put enqueues
C18_PutStep ==
    /\ Len(pipeline') > Len(pipeline) =>
          \E t \in Targets :
              /\ ~disable_snapshot
              /\ task[t].pc = "put" /\ task'[t].pc # "put"
              /\ task[t].results =
                     VerifyResult(t, PortOf(task[t]), task[t].product, task[t].poc)
              /\ pipeline' =
                     Append(pipeline, << << "exploit", task[t].product, task[t].poc >>,
                                         task[t].results >>)
              /\ task_count' = task_count + 1
              /\ \E i \in 1..Len(vulnerable) :
                    vulnerable[i] = SubSeq(task[t].results, 1, RecordFields)
    /\ \A t \in Targets :
          /\ (task[t].pc = "add_vulnerable" /\ task'[t] # task[t]) =>
                 (task'[t].pc = "put" <=> ~disable_snapshot)
          /\ (task[t].pc = "put" /\ task'[t] # task[t]) =>
                 Len(pipeline') = Len(pipeline) + 1
          /\ (task[t].pc # "add_vulnerable" /\ task'[t].pc = "put") => task[t].pc = "put"

\* with snapshots disabled there is no job, no consumer and no task at put
C18_DisabledNoJob ==
    disable_snapshot =>
        /\ pipeline = << >> /\ task_count = 0
        /\ snapshot_greenlet = "none"
        /\ \A t \in Targets : task[t].pc # "put"

\* C18: with snapshots enabled each verified check enqueues one job, after
\* its record was appended, made of that check's exploit and that check's
\* result; with snapshots disabled no job is enqueued and no consumer started
C18_OneJobPerSuccess == [][C18_PutStep]_vars /\ []C18_DisabledNoJob

\* the job of the second check of the list is in the queue, its record in
\* the log
C18_Witness ==
    /\ ~disable_snapshot
    /\ \E i \in 1..Len(pipeline) :
          /\ pipeline[i][1] = << "exploit", "cam", 2 >>
          /\ Len(pipeline[i][2]) = ResultLen(2)
          /\ \E j \in 1..Len(vulnerable) : vulnerable[j] = Slice(pipeline[i][2])


\* ---- from the result of a check to the name report counts ----

AllResults ==
    { VerifyResult(t, port, product, poc) :
        t \in Targets, port \in 1..MaxPorts, product \in Products, poc \in 1..MaxPocs }

\* the result of poc.verify a line of the log was cut from
ResultOf(line) == CHOOSE res \in AllResults : SubSeq(res, 1, RecordFields) = line

\* the lines of the log cut from results of this device with this value in
\* field number n (n = 0: in their last field)
LinesNamed(dev, name, n) ==
    { i \in 1..Len(vulnerable) :
        LET res == ResultOf(vulnerable[i]) IN
        /\ PrefixBeforeDash(res[3]) = dev
        /\ res[IF n = 0 THEN Len(res) ELSE n] = name }

\* report counts as many lines under this device and name
CountedUnder(dev, name, n) ==
    \E g \in 1..Len(output.groups) :
        /\ output.groups[g].dev = dev
        /\ \E v \in 1..Len(output.groups[g].vuls) :
              /\ output.groups[g].vuls[v].vul_name = name
              /\ output.groups[g].vuls[v].vul_count = n

\* C19 as stated: after a run, every finding whose result has 7 or more
\* fields is counted by report under the last field of that result
C19_CountedUnderLastField ==
    pc = "done" =>
        \A i \in 1..Len(vulnerable) :
            LET res == ResultOf(vulnerable[i]) IN
            Len(res) >= RecordFields + 1 =>
                CountedUnder(PrefixBeforeDash(res[3]), res[Len(res)],
                             Cardinality(LinesNamed(PrefixBeforeDash(res[3]),
                                                    res[Len(res)], 0)))

\* C19 amended: after a run, every finding is counted by report under field
\* 6 of the result of its check, the last field results[:6] keeps; that is
\* the last field of the result when the result has 6 fields
C19_CountedUnderSixthField ==
    pc = "done" =>
        \A i \in 1..Len(vulnerable) :
            LET res == ResultOf(vulnerable[i]) IN
            /\ CountedUnder(PrefixBeforeDash(res[3]), res[RecordFields],
                            Cardinality(LinesNamed(PrefixBeforeDash(res[3]),
                                                   res[RecordFields], RecordFields)))
            /\ Len(res) = RecordFields => res[RecordFields] = res[Len(res)]

\* a run ended with the finding of a 7-field result in the log, counted
\* under the sixth field of the result and not under the seventh
C19_Witness ==
    /\ pc = "done"
    /\ \E i \in 1..Len(vulnerable) :
          LET res == ResultOf(vulnerable[i]) IN
          /\ Len(res) = RecordFields + 1
          /\ res[Len(res)] = << "name", "2" >>
          /\ CountedUnder(<< "cam" >>, res[RecordFields], 1)
          /\ \A n \in 1..Len(vulnerable) : ~CountedUnder(<< "cam" >>, res[Len(res)], n)

\* ---- finish ----

Finished == done >= total /\ task_count <= 0

\* the two greenlets that poll finish() can leave exactly when done >= total
\* and no job is outstanding
C20_FinishGuard ==
    /\ (Live /\ status_bar_greenlet = "running") => (ENABLED StatusBarExit <=> Finished)
    /\ (Live /\ snapshot_greenlet = "running") => (ENABLED SnapshotProcessExit <=> Finished)
    /\ total = Len(feed)
    /\ (done >= total /\ total > 0) =>
          \A t \in 1..Len(feed) : task[t].pc \in {"record_running_state", "finished"}

C20_FinishStays ==
    /\ Finished => (done' >= total' /\ task_count' <= 0)
    /\ total' = total
    /\ Len(pipeline') > Len(pipeline) => done < total

\* C20: finish() is true exactly when done >= total and no snapshot job is
\* outstanding, total being the number of targets of the feed, and once true
\* it stays true: a job is enqueued only while done < total
C20_FinishStable == []C20_FinishGuard /\ [][C20_FinishStays]_vars

\* finish() holds after a job was enqueued and taken and the consumer left
C20_Witness ==
    /\ ~disable_snapshot /\ total > 0
    /\ Finished
    /\ Len(vulnerable) > 0
    /\ snapshot_greenlet = "exited"

====
